---- MODULE Spec2Model ----
(***************************************************************************)
(* Model of radar_simulation_app.ipynb: the signal functions               *)
(* (generate_pulse, simulate_target_doppler, add_clutter, add_noise,       *)
(* matched_filter, threshold_detector, calculate_pd, radar_range) and the  *)
(* widget callback run_simulation_enhanced, stepped line by line.          *)
(*                                                                         *)
(* Numbers.  The program computes in floating point; the model computes    *)
(* exactly.  A number is a record [num, den, dex] that stands for          *)
(* (num / den) * 10^(dex / 10): a reduced fraction times a power of ten    *)
(* whose exponent is kept in tenths of a decade (decibels), so that        *)
(* 10e9, 1e-6, 1.38e-23 and 10**(snr_db / 10) are all exact.               *)
(***************************************************************************)
EXTENDS Integers, Sequences, FiniteSets, TLC

----------------------------------------------------------------------------
(* Exact arithmetic                                                        *)

RECURSIVE GCD(_, _)
GCD(a, b) ==
    IF b = 0 THEN a ELSE GCD(b, a % b)

Abs(n) ==
    IF n < 0 THEN -n ELSE n

RECURSIVE Pow10(_)
Pow10(k) ==
    IF k <= 0 THEN 1 ELSE 10 * Pow10(k - 1)

\* The normal form: den has no factor 2 or 5, num is no multiple of 10.
RECURSIVE Strip(_, _, _)
Strip(n, d, x) ==
    IF n = 0 THEN [num |-> 0, den |-> 1, dex |-> 0]
    ELSE IF d % 2 = 0 THEN Strip(5 * n, d \div 2, x - 10)
    ELSE IF d % 5 = 0 THEN Strip(2 * n, d \div 5, x - 10)
    ELSE IF n % 10 = 0 THEN Strip(n \div 10, d, x + 10)
    ELSE [num |-> n, den |-> d, dex |-> x]

\* (n / d) * 10^(x / 10) in normal form; d # 0.
Real(n, d, x) ==
    LET g == GCD(Abs(n), Abs(d))
        s == IF d < 0 THEN -1 ELSE 1
    IN  IF n = 0 THEN Strip(0, 1, 0)
        ELSE Strip(s * (n \div g), Abs(d) \div g, x)

\* The Python literal m e k, e.g. 3e8 is Sci(3, 8).
Sci(m, k) ==
    Real(m, 1, 10 * k)

Int2Real(n) ==
    Real(n, 1, 0)

Zero ==
    Int2Real(0)

One ==
    Int2Real(1)

IsZero(a) ==
    a.num = 0

IsNeg(a) ==
    a.num < 0

Neg(a) ==
    [a EXCEPT !.num = -a.num]

Mul(a, b) ==
    LET g1 == GCD(Abs(a.num), b.den)
        g2 == GCD(Abs(b.num), a.den)
    IN  IF a.num = 0 \/ b.num = 0 THEN Zero
        ELSE Real((a.num \div g1) * (b.num \div g2),
                  (a.den \div g2) * (b.den \div g1), a.dex + b.dex)

\* 1 / a for a # 0 (the callers raise ZeroDivisionError before using it on 0).
Inv(a) ==
    Real(a.den, a.num, -a.dex)

Div(a, b) ==
    Mul(a, Inv(b))

\* The numerator of a over the denominator lcd, at decade exponent m.
Scaled(a, m, lcd) ==
    a.num * Pow10((a.dex - m) \div 10) * (lcd \div a.den)

MinDex(a, b) ==
    IF IsZero(a) THEN b.dex
    ELSE IF IsZero(b) THEN a.dex
    ELSE IF a.dex < b.dex THEN a.dex ELSE b.dex

Lcm(a, b) ==
    (a \div GCD(a, b)) * b

\* a + b, for a and b whose exponents are whole decades apart.
Add(a, b) ==
    LET m == MinDex(a, b)
        l == Lcm(a.den, b.den)
    IN  IF IsZero(a) THEN b
        ELSE IF IsZero(b) THEN a
        ELSE Real(Scaled(a, m, l) + Scaled(b, m, l), l, m)

Sub(a, b) ==
    Add(a, Neg(b))

\* a < b
Less(a, b) ==
    IsNeg(Sub(a, b))

\* floor(a), for a whose exponent is a whole number of decades.
Floor(a) ==
    IF a.dex >= 0 THEN (a.num * Pow10(a.dex \div 10)) \div a.den
    ELSE IF -a.dex > 90 THEN (IF a.num < 0 THEN -1 ELSE 0)
    ELSE a.num \div (a.den * Pow10((-a.dex) \div 10))

Ceil(a) ==
    -Floor(Neg(a))

\* Python's int(x): truncation toward zero.
Trunc(a) ==
    IF IsNeg(a) THEN -Floor(Neg(a)) ELSE Floor(a)

\* 10 ** (db / 10)
FromDb(db) ==
    Real(1, 1, db)

----------------------------------------------------------------------------
(* Constants and numpy helpers                                             *)

\* c=3e8, speed of light (m/s)
c ==
    Sci(3, 8)

\* k=1.38e-23, Boltzmann's constant (J/K)
k ==
    Real(138, 100, -230)

RECURSIVE SumRange(_, _, _)
\* s[lo] + ... + s[hi], halving the range
SumRange(s, lo, hi) ==
    IF lo > hi THEN Zero
    ELSE IF lo = hi THEN s[lo]
    ELSE Add(SumRange(s, lo, (lo + hi) \div 2), SumRange(s, ((lo + hi) \div 2) + 1, hi))

SumSeq(s) ==
    SumRange(s, 1, Len(s))

\* np.zeros(n)
Zeros(n) ==
    [i \in 1..n |-> Zero]

\* ArangeLen as if arange rounded the sample count down.
ArangeLenFloor(stop, step) ==
    LET n == Floor(Div(stop, step))
    IN  IF n > 0 THEN n ELSE 0

\* len(np.arange(0, stop, step)) = ceil((stop - 0) / step), none when that is <= 0
ArangeLen(stop, step) ==
    LET n == Ceil(Div(stop, step))
    IN  IF n > 0 THEN n ELSE 0

\* np.arange(0, stop, step): element i (from 0) is 0 + i * step
Arange(stop, step) ==
    [i \in 1..ArangeLen(stop, step) |-> Mul(Int2Real(i - 1), step)]

\* The whole quarter of the cycle that x cycles lie in, 0..3, for x on the
\* quarter-cycle grid (4 x an integer); sin and cos are rational only there.
\* A whole number of cycles lies in quarter 0.
Quarter(x) ==
    IF x.dex >= 0 /\ x.den = 1 THEN 0
    ELSE Floor(Mul(Int2Real(4), x)) % 4

\* np.sin(2 * np.pi * x)
Sin2Pi(x) ==
    CASE Quarter(x) = 0 -> Zero
      [] Quarter(x) = 1 -> One
      [] Quarter(x) = 2 -> Zero
      [] Quarter(x) = 3 -> Neg(One)

\* np.exp(1j * 2 * np.pi * x), a complex number
Exp2PiJ(x) ==
    [re |-> Sin2Pi(Add(x, Real(1, 4, 0))), im |-> Sin2Pi(x)]

\* np.mean(np.abs(signal)**2) of a non-empty real signal
MeanPower(signal) ==
    Div(SumSeq([i \in 1..Len(signal) |-> Mul(signal[i], signal[i])]),
        Int2Real(Len(signal)))

RECURSIVE MaxRange(_, _, _)
\* the largest of s[lo..hi], lo <= hi, halving the range
MaxRange(s, lo, hi) ==
    IF lo = hi THEN s[lo]
    ELSE LET a == MaxRange(s, lo, (lo + hi) \div 2)
             b == MaxRange(s, ((lo + hi) \div 2) + 1, hi)
         IN  IF Less(a, b) THEN b ELSE a

\* np.max of a non-empty array
MaxSeq(s) ==
    MaxRange(s, 1, Len(s))

----------------------------------------------------------------------------
(* np.random: the one process-wide generator                               *)

\* The generator's state is a window of RngDigits standard-normal draws yet to
\* come, one base-3 digit each; a draw takes the lowest and the window turns.
RngDigits ==
    3

RECURSIVE Pow3(_)
Pow3(n) ==
    IF n <= 0 THEN 1 ELSE 3 * Pow3(n - 1)

RngStates ==
    0..(Pow3(RngDigits) - 1)

\* The standard-normal draw the state yields next: one of -1, 0, 1.
Gauss(state) ==
    (state % 3) - 1

RngAdvance(state) ==
    (state \div 3) + (state % 3) * Pow3(RngDigits - 1)

RECURSIVE Turn(_, _)
Turn(state, n) ==
    IF n <= 0 THEN state ELSE Turn(RngAdvance(state), n - 1)

\* The state after n draws: RngDigits draws bring the window round again.
RngAfter(state, n) ==
    Turn(state, n % RngDigits)

\* One sample of np.random.normal(0, sqrt(power), ...): scale * draw.  A zero
\* scale gives exactly 0; a positive scale has every real in its support, and
\* the sample is the draw itself.
NormalSample(power, state) ==
    IF IsZero(power) THEN Zero ELSE Int2Real(Gauss(state))

\* np.random.normal(0, np.sqrt(power), n): the samples and the state after.
Normal(power, n, state) ==
    [samples |-> [i \in 1..n |-> NormalSample(power, RngAfter(state, i - 1))],
     state   |-> RngAfter(state, n)]

----------------------------------------------------------------------------
(* Signal functions                                                        *)

generate_pulse(fc, duration, sample_rate) ==
    LET t == Arange(duration, Div(One, sample_rate))
    IN  [t |-> t, pulse |-> [i \in 1..Len(t) |-> Sin2Pi(Mul(fc, t[i]))]]

\* delay_samples = int((2 * distance / c) * sample_rate)
DelaySamples(distance, sample_rate) ==
    Trunc(Mul(Div(Mul(Int2Real(2), distance), c), sample_rate))

\* doppler_freq = 2 * velocity_mps * fc / c
DopplerFreq(velocity_mps, fc) ==
    Div(Mul(Mul(Int2Real(2), velocity_mps), fc), c)

\* shifted_pulse = pulse * np.exp(1j * 2 * np.pi * doppler_freq * t[:len(pulse)])
ShiftedPulse(pulse, sample_rate, doppler_freq) ==
    LET t == Arange(Div(Int2Real(Len(pulse)), sample_rate), Div(One, sample_rate))
    IN  [i \in 1..Len(pulse) |->
            LET e == Exp2PiJ(Mul(doppler_freq, t[i]))
            IN  [re |-> Mul(pulse[i], e.re), im |-> Mul(pulse[i], e.im)]]

\* simulate_target_doppler as if the slice began one sample late and the echo
\* buffer were one sample longer.
simulate_target_doppler_late(pulse, distance, sample_rate, velocity_mps, fc, attenuation) ==
    LET delay_samples == DelaySamples(distance, sample_rate) + 1
        shifted_pulse == ShiftedPulse(pulse, sample_rate, DopplerFreq(velocity_mps, fc))
    IN  [i \in 1..(delay_samples + Len(shifted_pulse)) |->
            IF i <= delay_samples THEN Zero
            ELSE Mul(attenuation, shifted_pulse[i - delay_samples].re)]

simulate_target_doppler(pulse, distance, sample_rate, velocity_mps, fc, attenuation) ==
    LET delay_samples == DelaySamples(distance, sample_rate)
        shifted_pulse == ShiftedPulse(pulse, sample_rate, DopplerFreq(velocity_mps, fc))
        echo == [i \in 1..(delay_samples + Len(shifted_pulse)) |->
                    IF i <= delay_samples THEN [re |-> Zero, im |-> Zero]
                    ELSE [re |-> Mul(attenuation, shifted_pulse[i - delay_samples].re),
                          im |-> Mul(attenuation, shifted_pulse[i - delay_samples].im)]]
    IN  [i \in 1..Len(echo) |-> echo[i].re]

\* clutter_power = signal_power / (10**(clutter_level_db / 10))
ClutterPower(signal, clutter_level_db) ==
    Div(MeanPower(signal), FromDb(clutter_level_db))

add_clutter(signal, clutter_level_db, sample_rate, state) ==
    LET clutter == Normal(ClutterPower(signal, clutter_level_db), Len(signal), state)
    IN  [signal |-> [i \in 1..Len(signal) |-> Add(signal[i], clutter.samples[i])],
         state  |-> clutter.state]

\* noise_power = signal_power / snr_linear
NoisePower(signal, snr_db) ==
    Div(MeanPower(signal), FromDb(snr_db))

add_noise(signal, snr_db, state) ==
    LET noise == Normal(NoisePower(signal, snr_db), Len(signal), state)
    IN  [signal |-> [i \in 1..Len(signal) |-> Add(signal[i], noise.samples[i])],
         state  |-> noise.state]

\* Sample i (from 1) of received, zero outside the array.
At(received, i) ==
    IF i >= 1 /\ i <= Len(received) THEN received[i] ELSE Zero

\* matched_filter as if 'same' kept the first len(received) samples of the
\* full correlation instead of the centred ones.
matched_filter_uncentred(received, pulse) ==
    [i \in 1..Len(received) |->
        SumSeq([j \in 1..Len(pulse) |->
                   Mul(At(received, i - Len(pulse) + j), pulse[j])])]

\* correlate(received, pulse, mode='same') for len(received) >= len(pulse) >= 1:
\* the len(received) centred samples of the full correlation, sample i (from 0)
\* being sum_k received[i - len(pulse) // 2 + k] * pulse[k].
matched_filter(received, pulse) ==
    [i \in 1..Len(received) |->
        SumSeq([j \in 1..Len(pulse) |->
                   Mul(At(received, i - (Len(pulse) \div 2) + j - 1), pulse[j])])]

\* threshold_detector as if it compared with >=.
threshold_detector_ge(signal, threshold) ==
    [i \in 1..Len(signal) |-> ~Less(signal[i], threshold)]

threshold_detector(signal, threshold) ==
    [i \in 1..Len(signal) |-> Less(threshold, signal[i])]

\* calculate_pd: 0.5 * erfc((sqrt(-2 ln pfa) - sqrt(snr_linear)) / sqrt(2)).  The
\* value is kept in closed form; np.log gives -inf at 0 (so erfc(inf) = 0) and
\* nan below 0, np.sqrt gives nan when -2 ln pfa < 0 (pfa > 1).
calculate_pd(snr_db, pfa) ==
    IF IsZero(pfa) THEN [kind |-> "zero", snr_linear |-> FromDb(snr_db), pfa |-> pfa]
    ELSE IF IsNeg(pfa) \/ Less(One, pfa)
         THEN [kind |-> "nan", snr_linear |-> FromDb(snr_db), pfa |-> pfa]
    ELSE [kind |-> "erfc", snr_linear |-> FromDb(snr_db), pfa |-> pfa]

\* radar_range with L = 1: (numerator / denominator) ** 0.25 for Smin # 0, kept
\* as the fourth power times (4 pi)^3; a negative base gives a complex number.
radar_range(Pt, Gt, Gr, lambda_radar, RCS, Smin) ==
    LET numerator == Mul(Mul(Mul(Pt, Gt), Mul(Gr, Mul(lambda_radar, lambda_radar))), RCS)
        q == Div(numerator, Smin)
    IN  [kind |-> IF IsNeg(q) THEN "complex" ELSE "float", fourth_power_4pi3 |-> q]

----------------------------------------------------------------------------
(* The widgets and the parameter sets                                      *)

\* The widgets' initial values.
Defaults ==
    [fc |-> Sci(10, 9), duration |-> Sci(1, -6), sample_rate |-> Sci(1, 7),
     distance |-> Int2Real(1500), attenuation |-> Real(7, 10, 0), snr_db |-> 10,
     Pt |-> Int2Real(1000), Gt |-> 30, Gr |-> 30, RCS |-> Int2Real(1),
     T |-> 290, B |-> Sci(1, 6), NF |-> 3, pfa |-> Sci(1, -6),
     velocity_mps |-> Zero, clutter_level_db |-> 0]

\* fc=10e9, duration=1e-6, sampleRate=1e7, distance=1500, attenuation=1.0,
\* snrDb=30, velocity=0, clutterLevelDb=20
Scenario ==
    [Defaults EXCEPT !.attenuation = One, !.snr_db = 30, !.clutter_level_db = 20]

\* A slow pulse: 4 samples at 40 Hz, a quarter of a carrier cycle per sample,
\* and a detection window of int(0.05 * 40) = 2 samples.
Slow ==
    [Defaults EXCEPT !.fc = Int2Real(10), !.duration = Sci(1, -1),
                     !.sample_rate = Int2Real(40), !.attenuation = One]

\* 2 samples at 20 Hz and a window of 1 sample.
Slower ==
    [Slow EXCEPT !.fc = Int2Real(5), !.sample_rate = Int2Real(20)]

\* The last two distances lie beyond the distance slider (0..10000 m): they are
\* calls of run_simulation_enhanced from a cell.
ValidParams ==
    {Defaults, Scenario, Slow, Slower,
     [Slow EXCEPT !.attenuation = Real(7, 10, 0), !.clutter_level_db = 20],
     [Slow EXCEPT !.attenuation = Zero],
     [Slow EXCEPT !.snr_db = -20, !.clutter_level_db = -20],
     [Slow EXCEPT !.duration = Real(21, 200, 0)],
     [Slow EXCEPT !.duration = Sci(5, -2), !.clutter_level_db = 20],
     [Slow EXCEPT !.fc = Int2Real(11718750), !.velocity_mps = Int2Real(128)],
     [Slow EXCEPT !.fc = Int2Real(11718750), !.velocity_mps = Int2Real(-128),
                  !.duration = Sci(5, -2)],
     [Slower EXCEPT !.snr_db = 30, !.clutter_level_db = 20],
     [Slower EXCEPT !.distance = Sci(3, 7)],
     [Slower EXCEPT !.distance = Sci(15, 6), !.duration = Sci(15, -2)]}

\* Values the text and integer boxes accept and the spec calls invalid.
InvalidParams ==
    {[Slow EXCEPT !.sample_rate = Zero],
     [Slow EXCEPT !.B = Zero],
     [Slow EXCEPT !.T = 0],
     [Slow EXCEPT !.pfa = Zero],
     [Slow EXCEPT !.pfa = One],
     [Slow EXCEPT !.pfa = Int2Real(2)],
     [Slower EXCEPT !.pfa = Real(-1, 10, 0)],
     [Slower EXCEPT !.B = Neg(Sci(1, 6))]}

Params ==
    ValidParams \cup InvalidParams

\* The parameters of the runs that are compared with one another.
RunParams ==
    {Slower, [Slower EXCEPT !.snr_db = 30, !.clutter_level_db = 20]}

----------------------------------------------------------------------------
(* The kernel: one thread, run_simulation_enhanced stepped stage by stage  *)

VARIABLES
    pc,       \* where the kernel is: idle, a stage of the callback, returned, raised
    params,   \* the arguments of the current call
    loc,      \* the locals of run_simulation_enhanced
    rng,      \* the state of np.random, the process-wide generator
    rng0,     \* rng when the current call began
    error,    \* the exception that ended the call, or "none"
    ret,      \* what the call returned to its caller
    out,      \* the output area: the figure and the printed lines
    trace,    \* the stages of the current call that have run, in order
    prev,     \* the last finished call: parameters, rng at its start, its results
    call,     \* a function called directly from a cell, with its arguments
    result    \* what that function returned

vars ==
    <<pc, params, loc, rng, rng0, error, ret, out, trace, prev, call, result>>

NoPd ==
    [kind |-> "unset", snr_linear |-> Zero, pfa |-> Zero]

NoRange ==
    [kind |-> "unset", fourth_power_4pi3 |-> Zero]

NoLocals ==
    [lambda_radar |-> Zero, system_noise_power |-> Zero, max_range |-> NoRange,
     t |-> <<>>, pulse |-> <<>>, echo |-> <<>>, cluttered |-> <<>>,
     clutter_power |-> Zero, noise_power |-> Zero, received |-> <<>>,
     output |-> <<>>, threshold |-> Zero, detections |-> <<>>,
     expected_delay_samples |-> 0, detection_window |-> 0,
     target_detected |-> FALSE, calculated_pd |-> NoPd, doppler_freq |-> Zero]

NoOutput ==
    [plots |-> <<>>, lines |-> <<>>]

NoPrev ==
    [valid |-> FALSE, params |-> Defaults, rng0 |-> 0, received |-> <<>>,
     target_detected |-> FALSE]

NoCall ==
    [fn |-> "none"]

Resting ==
    pc \in {"idle", "returned", "raised"}

\* The widgets hold p and interactive_output calls run_simulation_enhanced(**p),
\* clearing the output area first.
Call(p) ==
    /\ Resting
    /\ pc' = "radar_range"
    /\ params' = p
    /\ loc' = NoLocals
    /\ rng0' = rng
    /\ error' = "none"
    /\ ret' = "pending"
    /\ out' = NoOutput
    /\ trace' = <<>>
    /\ UNCHANGED <<rng, prev, call, result>>

\* An exception leaves the callback: the frame is gone, nothing is returned.
Raise(name) ==
    /\ pc' = "raised"
    /\ error' = name
    /\ loc' = NoLocals
    /\ ret' = "nothing"
    /\ UNCHANGED <<params, rng, rng0, out, trace, prev, call, result>>

\* A stage ran: the locals it bound, and the line the kernel is at next.
Ran(stage, next, locals) ==
    /\ pc' = next
    /\ loc' = locals
    /\ trace' = Append(trace, stage)
    /\ UNCHANGED <<params, rng0, error, ret, out, prev, call, result>>

\* system_noise_power = k * T * B * (10**(NF/10))
SystemNoisePower(T, B, NF) ==
    Mul(Mul(Mul(k, Int2Real(T)), B), FromDb(NF))

\* lines 84-86: lambda_radar, system_noise_power, max_range
RadarRange ==
    /\ pc = "radar_range"
    /\ IF IsZero(params.fc) \/ IsZero(SystemNoisePower(params.T, params.B, params.NF))
       THEN Raise("ZeroDivisionError") /\ UNCHANGED rng
       ELSE LET lambda_radar == Div(c, params.fc)
                system_noise_power == SystemNoisePower(params.T, params.B, params.NF)
            IN  /\ Ran("radar_range", "generate_pulse",
                       [loc EXCEPT !.lambda_radar = lambda_radar,
                                   !.system_noise_power = system_noise_power,
                                   !.max_range = radar_range(params.Pt, FromDb(params.Gt),
                                        FromDb(params.Gr), lambda_radar, params.RCS,
                                        system_noise_power)])
                /\ UNCHANGED rng

\* line 88: t, pulse = generate_pulse(fc, duration, sample_rate)
GeneratePulse ==
    /\ pc = "generate_pulse"
    /\ IF IsZero(params.sample_rate)
       THEN Raise("ZeroDivisionError") /\ UNCHANGED rng
       ELSE LET g == generate_pulse(params.fc, params.duration, params.sample_rate)
            IN  /\ Ran("generate_pulse", "simulate_target_doppler",
                       [loc EXCEPT !.t = g.t, !.pulse = g.pulse])
                /\ UNCHANGED rng

\* line 89: echo = simulate_target_doppler(...)
SimulateTargetDoppler ==
    /\ pc = "simulate_target_doppler"
    /\ Ran("simulate_target_doppler", "add_clutter",
           [loc EXCEPT !.echo = simulate_target_doppler(loc.pulse, params.distance,
                params.sample_rate, params.velocity_mps, params.fc, params.attenuation)])
    /\ UNCHANGED rng

\* line 90, the inner call: add_clutter(echo, clutter_level_db, sample_rate)
AddClutter ==
    /\ pc = "add_clutter"
    /\ LET r == add_clutter(loc.echo, params.clutter_level_db, params.sample_rate, rng)
       IN  /\ Ran("add_clutter", "add_noise",
                  [loc EXCEPT !.cluttered = r.signal,
                              !.clutter_power = ClutterPower(loc.echo, params.clutter_level_db)])
           /\ rng' = r.state

\* NoiseInput as if add_noise were given the clean echo.
NoiseInputEcho ==
    loc.echo

\* NoiseInput as if add_noise were given a signal kept from an earlier call.
NoiseInputStale ==
    IF prev.valid THEN prev.received ELSE loc.cluttered

\* The signal add_noise is given: the return value of add_clutter.
NoiseInput ==
    loc.cluttered

\* line 90, the outer call: received = add_noise(<clutter-corrupted echo>, snr_db)
AddNoise ==
    /\ pc = "add_noise"
    /\ LET r == add_noise(NoiseInput, params.snr_db, rng)
       IN  /\ Ran("add_noise", "matched_filter",
                  [loc EXCEPT !.received = r.signal,
                              !.noise_power = NoisePower(NoiseInput, params.snr_db)])
           /\ rng' = r.state

\* line 91: output = matched_filter(received, pulse)
MatchedFilter ==
    /\ pc = "matched_filter"
    /\ Ran("matched_filter", "threshold",
           [loc EXCEPT !.output = matched_filter(loc.received, loc.pulse)])
    /\ UNCHANGED rng

\* threshold = np.max(output) * 0.5
Threshold(output) ==
    Mul(MaxSeq(output), Real(5, 10, 0))

\* lines 93-94: threshold, detections
Detect ==
    /\ pc = "threshold"
    /\ Ran("threshold", "window",
           [loc EXCEPT !.threshold = Threshold(loc.output),
                       !.detections = threshold_detector(loc.output, Threshold(loc.output))])
    /\ UNCHANGED rng

\* DetectionWindow as if the factor sample_rate were left out: int(0.05).
DetectionWindowSeconds(sample_rate) ==
    Trunc(Real(5, 100, 0))

\* detection_window = int(0.05 * sample_rate)
DetectionWindow(sample_rate) ==
    Trunc(Mul(Real(5, 100, 0), sample_rate))

Max2(a, b) ==
    IF a > b THEN a ELSE b

Min2(a, b) ==
    IF a < b THEN a ELSE b

\* The indices (from 0) of detections[max(0, e - w) : min(len(detections), e + w)],
\* for e + w >= 0.
WindowIndices(n, e, w) ==
    {i \in 0..(n - 1) : Max2(0, e - w) <= i /\ i < Min2(n, e + w)}

\* TargetDetected as if the mask were not sliced to the window.
TargetDetectedAnywhere(detections, e, w) ==
    \E i \in 0..(Len(detections) - 1) : detections[i + 1]

\* np.any(detections[max(0, e - w) : min(len(detections), e + w)])
TargetDetected(detections, e, w) ==
    \E i \in WindowIndices(Len(detections), e, w) : detections[i + 1]

\* lines 96-99: expected_delay_samples, detection_window, target_detected
Window ==
    /\ pc = "window"
    /\ LET e == DelaySamples(params.distance, params.sample_rate)
           w == DetectionWindow(params.sample_rate)
       IN  Ran("window", "calculate_pd",
               [loc EXCEPT !.expected_delay_samples = e,
                           !.detection_window = w,
                           !.target_detected = TargetDetected(loc.detections, e, w)])
    /\ UNCHANGED rng

\* lines 100-101: calculated_pd, doppler_freq
Metrics ==
    /\ pc = "calculate_pd"
    /\ Ran("calculate_pd", "report",
           [loc EXCEPT !.calculated_pd = calculate_pd(params.snr_db, params.pfa),
                       !.doppler_freq = DopplerFreq(params.velocity_mps, params.fc)])
    /\ UNCHANGED rng

\* lines 104-131: the figure's four panels
Plots ==
    <<[title |-> "Generated Pulse", x |-> loc.t, y |-> loc.pulse],
      [title |-> "Received Signal (with noise and clutter)", y |-> loc.received],
      [title |-> "Matched Filter Output with Detections", y |-> loc.output,
       axhline |-> loc.threshold,
       marks |-> {i \in 0..(Len(loc.detections) - 1) : loc.detections[i + 1]}],
      [title |-> "Frequency Spectrum", of |-> loc.received,
       doppler_freq |-> loc.doppler_freq]>>

\* lines 133-136: the four printed lines
Lines ==
    <<[label |-> "Theoretical Pd", value |-> loc.calculated_pd.kind],
      [label |-> "Detection at expected target location",
       value |-> IF loc.target_detected THEN "Yes" ELSE "No"],
      [label |-> "Simulated Doppler Shift", value |-> loc.doppler_freq],
      [label |-> "Maximum Theoretical Radar Range", value |-> loc.max_range.kind]>>

\* ReturnValue as if the function ended in a return of its results.
ReturnValueResult ==
    "SimulationResult"

\* What the function hands back: it has no return statement.
ReturnValue ==
    "None"

\* lines 104-136, then the end of the function body.  keep: whether the
\* finished call may be remembered in prev, to compare a later call with it.
Report(keep) ==
    /\ pc = "report"
    /\ pc' = "returned"
    /\ out' = [plots |-> Plots, lines |-> Lines]
    /\ ret' = ReturnValue
    /\ trace' = Append(trace, "report")
    /\ prev' \in IF keep
                 THEN {prev, [valid |-> TRUE, params |-> params, rng0 |-> rng0,
                              received |-> loc.received,
                              target_detected |-> loc.target_detected]}
                 ELSE {prev}
    /\ loc' = NoLocals
    /\ UNCHANGED <<params, rng, rng0, error, call, result>>

Init ==
    /\ pc = "idle"
    /\ params = Defaults
    /\ loc = NoLocals
    /\ rng \in RngStates
    /\ rng0 = rng
    /\ error = "none"
    /\ ret = "pending"
    /\ out = NoOutput
    /\ trace = <<>>
    /\ prev = NoPrev
    /\ call = NoCall
    /\ result = <<>>

Pipeline ==
    \/ RadarRange
    \/ GeneratePulse
    \/ SimulateTargetDoppler
    \/ AddClutter
    \/ AddNoise
    \/ MatchedFilter
    \/ Detect
    \/ Window
    \/ Metrics

Next ==
    \/ \E p \in Params : Call(p)
    \/ Pipeline
    \/ Report(FALSE)

Spec ==
    Init /\ [][Next]_vars

NextRuns ==
    \/ \E p \in RunParams : Call(p)
    \/ Pipeline
    \/ Report(TRUE)

SpecRuns ==
    Init /\ [][NextRuns]_vars

----------------------------------------------------------------------------
(* The signal functions called directly from a cell                        *)

MaxLen ==
    3

Samples ==
    {Neg(One), Zero, One}

RECURSIVE SeqsUpTo(_, _)
\* The sequences over S of length at most n.
SeqsUpTo(S, n) ==
    IF n = 0 THEN {<<>>}
    ELSE LET shorter == SeqsUpTo(S, n - 1)
         IN  shorter \cup {Append(s, x) : s \in {t \in shorter : Len(t) = n - 1}, x \in S}

Waveforms ==
    SeqsUpTo(Samples, MaxLen)

\* (fc, sample_rate, duration): carriers on the quarter-cycle grid of the rate.
PulseArgs ==
    ({<<Sci(10, 9), Sci(1, 7)>>, <<Sci(25, 5), Sci(1, 7)>>}
        \X {Sci(1, -6), Real(105, 100, -60), Sci(25, -8), Sci(1, -8)})
    \cup
    ({<<Int2Real(5), Int2Real(20)>>, <<Int2Real(10), Int2Real(20)>>,
      <<Int2Real(10), Int2Real(40)>>, <<Int2Real(30), Int2Real(40)>>,
      <<Zero, Int2Real(40)>>, <<Sci(10, 9), Int2Real(40)>>}
        \X {Sci(1, -1), Real(105, 1000, 0), Sci(19, -2), Sci(2, -1), Sci(1, -6)})

\* (distance, sample_rate, velocity_mps, fc, attenuation)
EchoArgs ==
    ({Zero, Int2Real(1500), Sci(75, 5), Sci(1, 7), Sci(15, 6)}
        \X {Int2Real(20), Int2Real(40)} \X {Zero} \X {Int2Real(10), Sci(10, 9)}
        \X {Zero, Real(7, 10, 0), One})
    \cup
    ({Zero, Sci(75, 5)} \X {Int2Real(40)} \X {Int2Real(128), Int2Real(-128)}
        \X {Int2Real(11718750)} \X {One, Real(7, 10, 0)})

Thresholds ==
    {Real(-1, 2, 0), Zero, Real(1, 2, 0)}

Calls ==
    {[fn |-> "generate_pulse", fc |-> a[1][1], sample_rate |-> a[1][2], duration |-> a[2]] :
        a \in PulseArgs}
    \cup
    {[fn |-> "simulate_target_doppler", pulse |-> w, distance |-> a[1],
      sample_rate |-> a[2], velocity_mps |-> a[3], fc |-> a[4], attenuation |-> a[5]] :
        w \in Waveforms, a \in EchoArgs}
    \cup
    {[fn |-> "matched_filter", received |-> a[1], pulse |-> a[2]] :
        a \in {b \in Waveforms \X Waveforms : Len(b[2]) >= 1 /\ Len(b[2]) <= Len(b[1])}}
    \cup
    {[fn |-> "threshold_detector", signal |-> w, threshold |-> th] :
        w \in Waveforms, th \in Thresholds}

InitCalls ==
    /\ pc = "cell"
    /\ call \in Calls
    /\ result = <<>>
    /\ params = Defaults
    /\ loc = NoLocals
    /\ rng = 0
    /\ rng0 = 0
    /\ error = "none"
    /\ ret = "pending"
    /\ out = NoOutput
    /\ trace = <<>>
    /\ prev = NoPrev

\* The cell's call returned r.
Returned(r) ==
    /\ pc' = "cell_done"
    /\ result' = r
    /\ UNCHANGED <<params, loc, rng, rng0, error, ret, out, trace, prev, call>>

CellGeneratePulse ==
    /\ pc = "cell"
    /\ call.fn = "generate_pulse"
    /\ Returned(generate_pulse(call.fc, call.duration, call.sample_rate))

CellSimulateTargetDoppler ==
    /\ pc = "cell"
    /\ call.fn = "simulate_target_doppler"
    /\ Returned(simulate_target_doppler(call.pulse, call.distance, call.sample_rate,
                                        call.velocity_mps, call.fc, call.attenuation))

CellMatchedFilter ==
    /\ pc = "cell"
    /\ call.fn = "matched_filter"
    /\ Returned(matched_filter(call.received, call.pulse))

CellThresholdDetector ==
    /\ pc = "cell"
    /\ call.fn = "threshold_detector"
    /\ Returned(threshold_detector(call.signal, call.threshold))

NextCalls ==
    \/ CellGeneratePulse
    \/ CellSimulateTargetDoppler
    \/ CellMatchedFilter
    \/ CellThresholdDetector

SpecCalls ==
    InitCalls /\ [][NextCalls]_vars

----------------------------------------------------------------------------
(* Properties                                                              *)

\* The current call has run `stage` and its locals are still in the frame.
Bound(stage) ==
    /\ pc \notin {"idle", "returned", "raised", "cell", "cell_done"}
    /\ \E i \in 1..Len(trace) : trace[i] = stage

\* The index (from 1) at which `stage` ran in the current call, 0 if it did not.
RanAt(stage) ==
    IF \E i \in 1..Len(trace) : trace[i] = stage
    THEN CHOOSE i \in 1..Len(trace) : trace[i] = stage
    ELSE 0

CellDone(fn) ==
    pc = "cell_done" /\ call.fn = fn

\* floor(2 * distance / c * sampleRate)
SpecDelay(distance, sample_rate) ==
    Floor(Div(Mul(Mul(Int2Real(2), distance), sample_rate), c))

\* C1: with velocity = 0, simulate_target_doppler returns an echo of length
\* delaySamples + len(waveform), delaySamples = floor(2*distance/c*sampleRate),
\* that is 0 before delaySamples and attenuation * waveform from there on.
C1_EchoIsDelayedScaledCopy ==
    (CellDone("simulate_target_doppler") /\ IsZero(call.velocity_mps)) =>
        LET d == SpecDelay(call.distance, call.sample_rate)
        IN  /\ Len(result) = d + Len(call.pulse)
            /\ \A i \in 1..d : result[i] = Zero
            /\ \A n \in 1..Len(call.pulse) :
                   result[d + n] = Mul(call.attenuation, call.pulse[n])

\* C1 witness: a three-sample waveform delayed by two samples and scaled by 0.7.
C1_Witness ==
    /\ CellDone("simulate_target_doppler")
    /\ IsZero(call.velocity_mps)
    /\ call.attenuation = Real(7, 10, 0)
    /\ call.pulse = <<One, Neg(One), One>>
    /\ SpecDelay(call.distance, call.sample_rate) = 2
    /\ result = <<Zero, Zero, Real(7, 10, 0), Real(-7, 10, 0), Real(7, 10, 0)>>

\* C2 as claimed: every call that returns hands its caller a result object
\* (the nine fields), not None.
C2_ReturnsResultObject ==
    pc = "returned" => ret # "None"

AllStages ==
    <<"radar_range", "generate_pulse", "simulate_target_doppler", "add_clutter",
      "add_noise", "matched_filter", "threshold", "window", "calculate_pd", "report">>

\* C2 as amended: every call that returns has run every stage, so that all nine
\* values were computed, and returns None; the values reach the caller's side
\* only as the figure's four panels and the four printed lines.
C2_ReturnsNoneAndReports ==
    pc = "returned" =>
        /\ ret = "None"
        /\ error = "none"
        /\ trace = AllStages
        /\ Len(out.plots) = 4
        /\ out.plots[1].y = generate_pulse(params.fc, params.duration,
                                           params.sample_rate).pulse
        /\ Len(out.plots[2].y) = Len(out.plots[3].y)
        /\ Len(out.lines) = 4
        /\ out.lines[2].value \in {"Yes", "No"}
        /\ out.lines[3].value = DopplerFreq(params.velocity_mps, params.fc)

\* C2 witness: a call with a delayed echo returned, having printed a detection.
C2_Witness ==
    /\ pc = "returned"
    /\ ret = "None"
    /\ Len(out.plots[2].y) > Len(out.plots[1].y)
    /\ out.lines[2].value = "Yes"

\* The parameters the spec calls invalid.
Invalid(p) ==
    \/ ~Less(Zero, p.sample_rate)
    \/ ~Less(Zero, p.duration)
    \/ ~Less(Zero, p.pfa)
    \/ ~Less(p.pfa, One)
    \/ ~Less(Zero, p.B)
    \/ p.T <= 0

\* C3: a call with an invalid parameter fails with InvalidParameter before any
\* stage has run and shows no partial result.
C3_InvalidRejectedEagerly ==
    (pc # "idle" /\ Invalid(params)) =>
        /\ trace = <<>>
        /\ pc \in {"radar_range", "raised"}
        /\ pc = "raised" => error = "InvalidParameter"
        /\ out = NoOutput

WindowCoversOutput ==
    /\ loc.expected_delay_samples - loc.detection_window <= 0
    /\ loc.expected_delay_samples + loc.detection_window >= Len(loc.output)

C4_DetectedCase ==
    /\ Bound("window")
    /\ WindowCoversOutput
    /\ loc.target_detected

\* C5: mask[n] is output[n] > 0.5 * max(output), and targetDetected is true
\* exactly when some n with max(0, e - w) <= n < min(len(output), e + w) has
\* mask[n] true, w = floor(0.05 * sampleRate).
C5_MaskAndWindow ==
    Bound("window") =>
        LET output == loc.output
            e == loc.expected_delay_samples
            w == Floor(Mul(Real(5, 100, 0), params.sample_rate))
            half == Mul(Real(1, 2, 0), MaxSeq(output))
        IN  /\ e = SpecDelay(params.distance, params.sample_rate)
            /\ Len(loc.detections) = Len(output)
            /\ \A i \in 1..Len(output) : loc.detections[i] = Less(half, output[i])
            /\ loc.target_detected =
                   (\E n \in 0..(Len(output) - 1) :
                        /\ Max2(0, e - w) <= n
                        /\ n < Min2(Len(output), e + w)
                        /\ loc.detections[n + 1])

\* C5 witness: the only true mask entries lie outside a window that starts
\* above index 0, and the target is not reported.
C5_Witness ==
    /\ Bound("window")
    /\ loc.expected_delay_samples - loc.detection_window > 0
    /\ \E i \in 1..Len(loc.detections) : loc.detections[i]
    /\ ~loc.target_detected

C8_PeakAtCentre ==
    (CellDone("matched_filter") /\ call.received = call.pulse) =>
        LET n == Len(call.pulse)
        IN  /\ Len(result) = n
            /\ \A i \in 0..(n - 1) :
                   i # n \div 2 => Less(result[i + 1], result[(n \div 2) + 1])

\* C8 as amended: the same, for a waveform with at least one non-zero sample.
C8_PeakAtCentreNonZero ==
    (/\ CellDone("matched_filter")
     /\ call.received = call.pulse
     /\ \E j \in 1..Len(call.pulse) : ~IsZero(call.pulse[j])) =>
        LET n == Len(call.pulse)
        IN  /\ Len(result) = n
            /\ result[(n \div 2) + 1] =
                   SumSeq([j \in 1..n |-> Mul(call.pulse[j], call.pulse[j])])
            /\ \A i \in 0..(n - 1) :
                   i # n \div 2 => Less(result[i + 1], result[(n \div 2) + 1])

\* C8 witness: a two-sample waveform with a non-zero sidelobe.
C8_Witness ==
    /\ CellDone("matched_filter")
    /\ call.received = call.pulse
    /\ call.pulse = <<One, One>>
    /\ result = <<One, Int2Real(2)>>

\* C9: clutter is added before noise; the clutter power is the mean square of
\* the clean echo over 10^(clutterLevelDb/10), the noise power the mean square
\* of the clutter-corrupted signal over 10^(snrDb/10).
C9_ClutterThenNoise ==
    Bound("add_noise") =>
        /\ RanAt("add_clutter") > RanAt("simulate_target_doppler")
        /\ RanAt("add_noise") = RanAt("add_clutter") + 1
        /\ loc.clutter_power =
               Div(MeanPower(loc.echo), FromDb(params.clutter_level_db))
        /\ loc.noise_power =
               Div(MeanPower(loc.cluttered), FromDb(params.snr_db))
        /\ Len(loc.received) = Len(loc.echo)

\* C9 witness: the clutter changed the signal's power, so the two candidate
\* noise powers differ.
C9_Witness ==
    /\ Bound("add_noise")
    /\ MeanPower(loc.cluttered) # MeanPower(loc.echo)
    /\ ~IsZero(loc.noise_power)

\* C10: the mask holds an index of the maximum exactly when max(output) > 0;
\* when max(output) <= 0 the mask is all false and targetDetected is false.
C10_PeakInMaskIffPositive ==
    Bound("window") =>
        LET m == MaxSeq(loc.output)
        IN  /\ \A i \in 1..Len(loc.output) :
                   loc.output[i] = m => (loc.detections[i] = Less(Zero, m))
            /\ ~Less(Zero, m) =>
                   /\ \A i \in 1..Len(loc.detections) : ~loc.detections[i]
                   /\ ~loc.target_detected

\* C10 witness: an all-zero echo gives an all-zero filter output inside the
\* window, and no detection.
C10_Witness ==
    /\ Bound("window")
    /\ Len(loc.output) >= 1
    /\ \A i \in 1..Len(loc.echo) : IsZero(loc.echo[i])
    /\ \A i \in 1..Len(loc.output) : IsZero(loc.output[i])
    /\ loc.detection_window > 0
    /\ ~loc.target_detected

====
